---- MODULE Spec2Model ----
(***************************************************************************)
(* The one-pass tree-tableau LTL satisfiability solver of                  *)
(* src/src/solver.cpp (LTL::detail::Solver).                               *)
(*                                                                         *)
(* Formulas are tagged trees:                                              *)
(*   <<"True">>  <<"False">>  <<"Atom", name>>  <<"Negation", f>>          *)
(*   <<"Tomorrow", f>>  <<"Always", f>>  <<"Eventually", f>>               *)
(*   <<"Conjunction", l, r>>  <<"Disjunction", l, r>>  <<"Until", l, r>>   *)
(* Closure indices are 0-based, as in the source.                          *)
(***************************************************************************)
EXTENDS Integers, Sequences, FiniteSets, TLC

(***************************************************************************)
(* Formula trees (formula.hpp: constructors and accessors)                 *)
(***************************************************************************)
TrueF == <<"True">>
FalseF == <<"False">>
Atom(n) == <<"Atom", n>>
Negation(f) == <<"Negation", f>>
Tomorrow(f) == <<"Tomorrow", f>>
Always(f) == <<"Always", f>>
Eventually(f) == <<"Eventually", f>>
Conjunction(l, r) == <<"Conjunction", l, r>>
Disjunction(l, r) == <<"Disjunction", l, r>>
Until(l, r) == <<"Until", l, r>>

type(f) == f[1]
isa(t, f) == f[1] = t
IsBinary(f) == f[1] \in {"Conjunction", "Disjunction", "Until"}
IsUnary(f) == f[1] \in {"Negation", "Tomorrow", "Always", "Eventually"}
IsNotUntil(f) == f[1] = "Negation" /\ f[2][1] = "Until"

\* Formula::Type, in declaration order; compareFunc falls back to it.
TypeRank(t) ==
    CASE t = "True" -> 0
      [] t = "False" -> 1
      [] t = "Atom" -> 2
      [] t = "Negation" -> 3
      [] t = "Tomorrow" -> 4
      [] t = "Always" -> 5
      [] t = "Eventually" -> 6
      [] t = "Conjunction" -> 7
      [] t = "Disjunction" -> 8
      [] t = "Until" -> 11

\* std::lexicographical_compare on atom names (names here are one letter).
NameRank(n) ==
    CASE n = "p" -> 0
      [] n = "q" -> 1
      [] n = "r" -> 2

(***************************************************************************)
(* Simplifier (simplifier.hpp): negations are pushed down to atoms and     *)
(* untils, the constants are folded away.                                  *)
(***************************************************************************)
mkTomorrow(f) == IF f \in {TrueF, FalseF} THEN f ELSE Tomorrow(f)
mkAlways(f) == IF f \in {TrueF, FalseF} THEN f ELSE Always(f)
mkEventually(f) == IF f \in {TrueF, FalseF} THEN f ELSE Eventually(f)
mkConjunction(l, r) ==
    IF l = FalseF \/ r = FalseF THEN FalseF
    ELSE IF l = TrueF THEN r
    ELSE IF r = TrueF THEN l
    ELSE Conjunction(l, r)
mkDisjunction(l, r) ==
    IF l = TrueF \/ r = TrueF THEN TrueF
    ELSE IF l = FalseF THEN r
    ELSE IF r = FalseF THEN l
    ELSE Disjunction(l, r)
mkUntil(l, r) ==
    IF r \in {TrueF, FalseF} THEN r
    ELSE IF l = TrueF THEN Eventually(r)
    ELSE IF l = FalseF THEN r
    ELSE Until(l, r)

\* simplify(make_negation(f)) for an f that is already simplified.
RECURSIVE simplify_negation(_)
simplify_negation(f) ==
    CASE f = TrueF -> FalseF
      [] f = FalseF -> TrueF
      [] isa("Atom", f) -> Negation(f)
      [] isa("Negation", f) -> f[2]
      [] isa("Tomorrow", f) -> Tomorrow(simplify_negation(f[2]))
      [] isa("Always", f) -> Eventually(simplify_negation(f[2]))
      [] isa("Eventually", f) -> Always(simplify_negation(f[2]))
      [] isa("Conjunction", f) ->
            Disjunction(simplify_negation(f[2]), simplify_negation(f[3]))
      [] isa("Disjunction", f) ->
            Conjunction(simplify_negation(f[2]), simplify_negation(f[3]))
      [] isa("Until", f) -> Negation(f)

RECURSIVE simplify(_)
simplify(f) ==
    CASE f = TrueF -> f
      [] f = FalseF -> f
      [] isa("Atom", f) -> f
      [] isa("Negation", f) -> simplify_negation(simplify(f[2]))
      [] isa("Tomorrow", f) -> mkTomorrow(simplify(f[2]))
      [] isa("Always", f) -> mkAlways(simplify(f[2]))
      [] isa("Eventually", f) -> mkEventually(simplify(f[2]))
      [] isa("Conjunction", f) -> mkConjunction(simplify(f[2]), simplify(f[3]))
      [] isa("Disjunction", f) -> mkDisjunction(simplify(f[2]), simplify(f[3]))
      [] isa("Until", f) -> mkUntil(simplify(f[2]), simplify(f[3]))

(***************************************************************************)
(* Generator (generator.hpp): the closure as a set, before sorting.        *)
(***************************************************************************)
RECURSIVE Subformulas(_)
Subformulas(f) ==
    IF IsBinary(f) THEN {f} \cup Subformulas(f[2]) \cup Subformulas(f[3])
    ELSE IF IsUnary(f) THEN {f} \cup Subformulas(f[2])
    ELSE {f}

NeedsTomorrow(f) == type(f) \in {"Always", "Eventually", "Until"} \/ IsNotUntil(f)

generate(f) ==
    IF f \in {TrueF, FalseF} THEN {f}
    ELSE LET sub == Subformulas(f)
             both == sub \cup {simplify_negation(g) : g \in sub}
         IN  both \cup {Tomorrow(g) : g \in {h \in both : NeedsTomorrow(h)}}

(***************************************************************************)
(* Solver::_initialize, lines 70-145: the comparator of the closure sort.  *)
(***************************************************************************)
RECURSIVE compareFunc(_, _)
compareFunc(a, b) ==
    IF isa("Atom", a) /\ isa("Atom", b) THEN NameRank(a[2]) < NameRank(b[2])
    ELSE IF isa("Negation", a) /\ isa("Negation", b) THEN compareFunc(a[2], b[2])
    ELSE IF isa("Negation", a) THEN
        (IF a[2] = b THEN FALSE ELSE compareFunc(a[2], b))
    ELSE IF isa("Negation", b) THEN
        (IF b[2] = a THEN TRUE ELSE compareFunc(a, b[2]))
    ELSE IF isa("Tomorrow", a) /\ isa("Tomorrow", b) THEN compareFunc(a[2], b[2])
    ELSE IF isa("Tomorrow", a) THEN
        (IF a[2] = b THEN FALSE ELSE compareFunc(a[2], b))
    ELSE IF isa("Tomorrow", b) THEN
        (IF b[2] = a THEN TRUE ELSE compareFunc(a, b[2]))
    ELSE IF isa("Always", a) /\ isa("Always", b) THEN compareFunc(a[2], b[2])
    ELSE IF isa("Eventually", a) /\ isa("Eventually", b) THEN compareFunc(a[2], b[2])
    ELSE IF type(a) = type(b) /\ IsBinary(a) THEN
        (IF a[2] # b[2] THEN compareFunc(a[2], b[2]) ELSE compareFunc(a[3], b[3]))
    ELSE TypeRank(type(a)) < TypeRank(type(b))

\* the closure sorted the other way round, greatest formula first
sort_descending(S) ==
    LET rank == [f \in S |-> Cardinality({g \in S : compareFunc(f, g)})]
    IN  [i \in 0..(Cardinality(S) - 1) |-> CHOOSE f \in S : rank[f] = i]

\* std::sort + std::unique (lines 147-150): each formula goes to the position
\* given by the number of formulas the comparator puts before it.
sort_unique(S) ==
    LET rank == [f \in S |-> Cardinality({g \in S : compareFunc(g, f)})]
    IN  [i \in 0..(Cardinality(S) - 1) |-> CHOOSE f \in S : rank[f] = i]

\* std::lower_bound(_subformulas.begin(), _subformulas.end(), v, compareFunc)
lower_bound(sf, v) ==
    LET N == Cardinality(DOMAIN sf)
        ge == {i \in DOMAIN sf : ~compareFunc(sf[i], v)}
    IN  IF ge = {} THEN N ELSE CHOOSE i \in ge : \A j \in ge : i <= j

\* FormulaID::max(), the "no formula" marker of _lhs, _rhs, the luts and
\* Frame::choosenFormula.
FormulaID_max == 9999

\* lines 172-218 and _add_formula_for_position: _lhs[i]
lhs_entry(sf, i) ==
    LET f == sf[i]
    IN  IF IsNotUntil(f) THEN lower_bound(sf, simplify_negation(f[2][2]))
        ELSE IF IsUnary(f) \/ IsBinary(f) THEN lower_bound(sf, f[2])
        ELSE FormulaID_max

\* lines 172-218 and _add_formula_for_position: _rhs[i]
rhs_entry(sf, i) ==
    LET f == sf[i]
    IN  IF IsNotUntil(f) THEN lower_bound(sf, simplify_negation(f[2][3]))
        ELSE IF IsBinary(f) THEN lower_bound(sf, f[3])
        ELSE FormulaID_max

\* the bitset family without the test of lines 346-352: the negation of an
\* until is flagged like every other negation
make_bitset_plain(sf) ==
    [atom        |-> {i \in DOMAIN sf : isa("Atom", sf[i])},
     negation    |-> {i \in DOMAIN sf : isa("Negation", sf[i])},
     tomorrow    |-> {i \in DOMAIN sf : isa("Tomorrow", sf[i])},
     always      |-> {i \in DOMAIN sf : isa("Always", sf[i])},
     eventually  |-> {i \in DOMAIN sf : isa("Eventually", sf[i])},
     conjunction |-> {i \in DOMAIN sf : isa("Conjunction", sf[i])},
     disjunction |-> {i \in DOMAIN sf : isa("Disjunction", sf[i])},
     until       |-> {i \in DOMAIN sf : isa("Until", sf[i])},
     not_until   |-> {}]

\* _add_formula_for_position: the bitset family, one set of indices per kind.
make_bitset(sf) ==
    [atom        |-> {i \in DOMAIN sf : isa("Atom", sf[i])},
     negation    |-> {i \in DOMAIN sf : isa("Negation", sf[i]) /\ ~IsNotUntil(sf[i])},
     tomorrow    |-> {i \in DOMAIN sf : isa("Tomorrow", sf[i])},
     always      |-> {i \in DOMAIN sf : isa("Always", sf[i])},
     eventually  |-> {i \in DOMAIN sf : isa("Eventually", sf[i])},
     conjunction |-> {i \in DOMAIN sf : isa("Conjunction", sf[i])},
     disjunction |-> {i \in DOMAIN sf : isa("Disjunction", sf[i])},
     until       |-> {i \in DOMAIN sf : isa("Until", sf[i])},
     not_until   |-> {i \in DOMAIN sf : IsNotUntil(sf[i])}]

\* lines 220-246: the formulas that are promised by an eventuality, as closure
\* indices in closure order (the closure order is the comparator's order).
eventuality_positions(bs, l, r) ==
    {l[i] : i \in bs.eventually} \cup {r[i] : i \in bs.until}
        \cup {l[i] : i \in bs.not_until} \cup {r[i] : i \in bs.not_until}

make_bw_lut(E) ==
    [s \in 0..(Cardinality(E) - 1) |->
        CHOOSE p \in E : Cardinality({x \in E : x < p}) = s]

make_fw_lut(sf, E) ==
    [i \in DOMAIN sf |->
        IF i \in E THEN Cardinality({x \in E : x < i}) ELSE FormulaID_max]

\* Minisat::Lit(var, sign): <<var, sign>>, sign = TRUE for a negated variable
Lit(var, sign) == <<var, sign>>

\* lines 268 and 279: the leaf is encoded by the variable just below it
negative_leaf(f) ==
    isa("Negation", f) \/ (isa("Tomorrow", f) /\ isa("Negation", f[2]))

\* lines 258-284: collect, the literals of the leaves of a disjunction
RECURSIVE collect(_, _)
collect(sf, f) ==
    LET side(g) ==
            IF isa("Disjunction", g) THEN collect(sf, g)
            ELSE IF negative_leaf(g) THEN <<Lit(lower_bound(sf, g) - 1, TRUE)>>
            ELSE <<Lit(lower_bound(sf, g), FALSE)>>
    IN  side(f[2]) \o side(f[3])

\* lines 286-324: _clauses[i]
clause_entry(sf, i) ==
    LET f == sf[i]
    IN  IF type(f) \in {"Atom", "Always", "Eventually", "Until"} THEN <<Lit(i, FALSE)>>
        ELSE IF isa("Negation", f) THEN <<Lit(i - 1, TRUE)>>
        ELSE IF isa("Tomorrow", f) THEN
            (IF isa("Negation", f[2]) THEN <<Lit(i - 1, TRUE)>> ELSE <<Lit(i, FALSE)>>)
        ELSE IF isa("Disjunction", f) THEN collect(sf, f)
        ELSE <<>>

\* ClauseCounter::count: the number of leaves of a disjunction
RECURSIVE count(_)
count(f) == IF isa("Disjunction", f) THEN count(f[2]) + count(f[3]) ELSE 1

(***************************************************************************)
(* Eventuality (solver.hpp): UNREQUESTED -> NOT_SATISFIED -> SATISFIED(id) *)
(***************************************************************************)
Unrequested == [st |-> "UNREQUESTED", id |-> 0]
is_not_requested(ev) == ev.st = "UNREQUESTED"
is_satisfied(ev) == ev.st = "SATISFIED"
set_not_satisfied(ev) == [st |-> "NOT_SATISFIED", id |-> 0]
set_satisfied(ev, frame_id) == [st |-> "SATISFIED", id |-> frame_id]

(***************************************************************************)
(* Frame (solver.hpp).  chain is the stack position (1 = bottom) of the    *)
(* frame pointed to, 0 for nullptr.  solver is the clause set handed to    *)
(* the frame's Minisat solver (read only when type = "SAT").               *)
(***************************************************************************)
\* Frame(FrameID, FormulaID, number_of_formulas, number_of_eventualities)
Frame_initial(id, f, N, E) ==
    [id |-> id, formulas |-> {f}, to_process |-> 0..(N - 1),
     eventualities |-> [s \in 0..(E - 1) |-> Unrequested],
     chain |-> 0, type |-> "UNKNOWN", choosenFormula |-> FormulaID_max,
     literals |-> {}, solver |-> {}]

\* Frame(FrameID, number_of_formulas, eventualities, chain)
Frame_step(id, N, evs, chainPtr) ==
    [id |-> id, formulas |-> {}, to_process |-> 0..(N - 1),
     eventualities |-> evs,
     chain |-> chainPtr, type |-> "UNKNOWN", choosenFormula |-> FormulaID_max,
     literals |-> {}, solver |-> {}]

\* a copy that inherits the kind and the chosen formula as well
Frame_copy_whole(frame) == [frame EXCEPT !.literals = {}, !.solver = {}]

\* a copy that does not inherit the chain
Frame_copy_unchained(frame) ==
    [frame EXCEPT !.type = "UNKNOWN", !.choosenFormula = FormulaID_max,
                  !.literals = {}, !.solver = {}, !.chain = 0]

\* Frame(const Frame&): formulas, to_process, eventualities, id and chain
\* are inherited; the copy is a fresh frame otherwise.
Frame_copy(frame) ==
    [frame EXCEPT !.type = "UNKNOWN", !.choosenFormula = FormulaID_max,
                  !.literals = {}, !.solver = {}]

(***************************************************************************)
(* The inputs of the constructor                                           *)
(***************************************************************************)
p == Atom("p")
q == Atom("q")

\* One connective over the atoms.
Level1 ==
    {Negation(a) : a \in {p, q}} \cup {Tomorrow(a) : a \in {p, q}}
        \cup {Always(a) : a \in {p, q}} \cup {Eventually(a) : a \in {p, q}}
        \cup {Conjunction(a, b) : a \in {p, q}, b \in {p, q}}
        \cup {Disjunction(a, b) : a \in {p, q}, b \in {p, q}}
        \cup {Until(a, b) : a \in {p, q}, b \in {p, q}}

Scenarios ==
    {TrueF, FalseF, p,
     Conjunction(p, Negation(p)),
     Conjunction(Conjunction(Always(Disjunction(Negation(p), Tomorrow(p))), p),
                 Eventually(Negation(p))),
     Conjunction(Conjunction(Negation(Until(p, q)), Eventually(q)),
                 Always(Negation(p))),
     Negation(Until(p, q)),
     Conjunction(Negation(Until(p, q)), Always(p)),
     Conjunction(Conjunction(Negation(Until(p, q)), Always(p)),
                 Disjunction(Until(p, q), p)),
     Conjunction(Conjunction(Negation(Until(p, q)), p), Eventually(Negation(p))),
     Always(Conjunction(Eventually(p), Negation(p))),
     Conjunction(Conjunction(Always(Disjunction(Negation(q),
                                                Tomorrow(Negation(Until(p, q))))),
                             Always(p)),
                 q),
     Conjunction(p, Tomorrow(Negation(p))),
     Conjunction(Negation(p), Tomorrow(Negation(Until(p, q)))),
     Disjunction(p, TrueF),
     Conjunction(Eventually(p), Eventually(q)),
     Conjunction(Always(p), Eventually(q)),
     Disjunction(Always(p), Eventually(q)),
     Tomorrow(Disjunction(p, q)),
     Disjunction(Until(p, q), Negation(Until(p, q))),
     Conjunction(Conjunction(Disjunction(p, q), Negation(p)), Negation(q))}

Inputs == Level1 \cup Scenarios

\* the inputs that are also solved with the SAT bridge enabled
SatInputs ==
    {Disjunction(p, q), Disjunction(q, q),
     Conjunction(Conjunction(Disjunction(p, q), Negation(p)), Negation(q)),
     Conjunction(Conjunction(Always(Disjunction(Negation(p), Tomorrow(p))), p),
                 Eventually(Negation(p))),
     Tomorrow(Disjunction(p, q)),
     Disjunction(Until(p, q), Negation(Until(p, q)))}

MaxDepthBound == 3
ProbabilityArgs == {0, 100}
DrawValues == {0, 1, 100}
MaxCalls == 3
MaxRuns == 2
\* the lookback percentages the solvers of Spec are constructed with
MinimumArg == 0
MaximumArg == 100
\* uint32_t arguments of the constructor, in range, just above 100 and far
\* above it (the arguments are only ever compared, so no arithmetic wraps)
FarAbove == 2000000000
ConfigArgs == {0, 40, 100, 101, FarAbove}

VARIABLES
    input,                   \* the constructor's formula argument
    formula,                 \* _formula (simplified)
    maximum_depth,           \* _maximum_depth
    backtrack_probability,   \* _backtrack_probability
    minimum_backtrack,       \* _minimum_backtrack
    maximum_backtrack,       \* _maximum_backtrack
    arguments,               \* the constructor's three percentage arguments
    use_sat,                 \* _use_sat_solver
    subformulas,             \* _subformulas
    bitset,                  \* _bitset
    lhs,                     \* _lhs
    rhs,                     \* _rhs
    fw_eventualities_lut,    \* _fw_eventualities_lut
    bw_eventualities_lut,    \* _bw_eventualities_lut
    clauses,                 \* _clauses
    start_index,             \* _start_index
    state,                   \* _state
    result,                  \* _result
    loop_state,              \* _loop_state
    stack,                   \* _stack, bottom first
    ret,                     \* what the last call returned to the caller
    calls,                   \* number of solution() calls made so far
    accepted,                \* the branches this solver paused on, in order
    runs,                    \* number of solvers constructed for the input
    previous                 \* what the previous solver's first model() returned

tables == <<subformulas, bitset, lhs, rhs, fw_eventualities_lut,
            bw_eventualities_lut, clauses, start_index>>
params == <<input, formula, maximum_depth, backtrack_probability,
            minimum_backtrack, maximum_backtrack, arguments, use_sat>>
history == <<calls, accepted, runs, previous>>
vars == <<params, tables, state, result, loop_state, stack, ret, history>>

number_of_formulas == Cardinality(DOMAIN subformulas)
Top == stack[Len(stack)]
ReplaceTop(stk, frame) == [stk EXCEPT ![Len(stk)] = frame]
Pop(stk) == SubSeq(stk, 1, Len(stk) - 1)

NoModel == [none |-> TRUE, states |-> <<>>, loop_state |-> 0]
NoReturn == [op |-> "none", result |-> "UNDEFINED", model |-> NoModel]

\* Solver::Solver, lines 24-25
clamp_probability(x) == IF x > 100 THEN 100 ELSE x

\* Solver::Solver, lines 27-28
clamp_maximum(x) == IF x > 100 THEN 100 ELSE x

\* _minimum_backtrack is left as it was passed
minimum_kept(x, maximum) == x

\* Solver::Solver, lines 30-31: maximum is _maximum_backtrack, already clamped
clamp_minimum(x, maximum) == IF x > maximum THEN maximum ELSE x

\* Solver::_initialize, lines 54-68: the closure is the single constant
constant_closure == number_of_formulas = 1 /\ subformulas[0] \in {TrueF, FalseF}

\* lines 54-68 and 331: _state when _initialize returns
initial_state == IF constant_closure THEN "DONE" ELSE "INITIALIZED"

\* lines 21 and 54-68: _result when _initialize returns
initial_result ==
    IF ~constant_closure THEN "UNDEFINED"
    ELSE IF subformulas[0] = TrueF THEN "SATISFIABLE" ELSE "UNSATISFIABLE"

\* line 330: _stack when _initialize returns
initial_stack ==
    IF constant_closure THEN <<>>
    ELSE <<Frame_initial(0, start_index, number_of_formulas,
                         Cardinality(DOMAIN bw_eventualities_lut))>>

\* Solver::_initialize
initialize(f) ==
    /\ formula = simplify(f)
    /\ subformulas = sort_unique(generate(formula))
    /\ bitset = IF constant_closure THEN make_bitset(<<>>) ELSE make_bitset(subformulas)
    /\ lhs = IF constant_closure THEN <<>>
             ELSE [i \in DOMAIN subformulas |-> lhs_entry(subformulas, i)]
    /\ rhs = IF constant_closure THEN <<>>
             ELSE [i \in DOMAIN subformulas |-> rhs_entry(subformulas, i)]
    /\ bw_eventualities_lut =
            IF constant_closure THEN <<>>
            ELSE make_bw_lut(eventuality_positions(bitset, lhs, rhs))
    /\ fw_eventualities_lut =
            IF constant_closure THEN <<>>
            ELSE make_fw_lut(subformulas, eventuality_positions(bitset, lhs, rhs))
    /\ clauses = IF constant_closure THEN <<>>
                 ELSE [i \in DOMAIN subformulas |-> clause_entry(subformulas, i)]
    /\ start_index = IF constant_closure THEN 0
                     ELSE CHOOSE i \in DOMAIN subformulas : subformulas[i] = formula
    /\ state = initial_state
    /\ result = initial_result
    /\ stack = initial_stack

\* Solver::Solver
Construct(f, depth, probability, minimum, maximum, sat) ==
    /\ input = f
    /\ initialize(f)
    /\ maximum_depth = depth
    /\ arguments = [backtrack_probability |-> probability,
                    minimum_backtrack |-> minimum,
                    maximum_backtrack |-> maximum]
    /\ backtrack_probability = clamp_probability(probability)
    /\ maximum_backtrack = clamp_maximum(maximum)
    /\ minimum_backtrack = clamp_minimum(minimum, clamp_maximum(maximum))
    /\ use_sat = sat
    /\ loop_state = 0

Init ==
    /\ \E f \in Inputs : \E depth \in 0..MaxDepthBound :
          \E probability \in ProbabilityArgs :
            \E sat \in (IF f \in SatInputs THEN BOOLEAN ELSE {FALSE}) :
                Construct(f, depth, probability, MinimumArg, MaximumArg, sat)
    /\ ret = NoReturn
    /\ calls = 0
    /\ accepted = <<>>
    /\ runs = 1
    /\ previous = NoReturn

(***************************************************************************)
(* The rules, as functions of the frame they are applied to                *)
(***************************************************************************)
\* Bitset::find_first on a non-empty set
find_first(S) == CHOOSE i \in S : \A j \in S : i <= j

\* temporary = frame.formulas & _bitset.rule & frame.to_process
Candidates(frame, rule) == frame.formulas \cap bitset[rule] \cap frame.to_process

\* Solver::_check_contradiction_rule
check_contradiction_rule(frame) ==
    \E i \in frame.formulas \cap bitset.negation : (i - 1) \in frame.formulas

\* Solver::_apply_conjunction_rule
apply_conjunction_rule(frame) ==
    LET c == Candidates(frame, "conjunction")
    IN  [frame EXCEPT !.formulas = @ \cup {lhs[i] : i \in c} \cup {rhs[i] : i \in c},
                      !.to_process = @ \ c]

\* Solver::_apply_always_rule
apply_always_rule(frame) ==
    LET c == Candidates(frame, "always")
    IN  [frame EXCEPT !.formulas = @ \cup {lhs[i] : i \in c} \cup {i + 1 : i \in c},
                      !.to_process = @ \ c]

\* lines 529-532: both alpha rules, conjunction first
AfterAlpha(frame) == apply_always_rule(apply_conjunction_rule(frame))

\* lines 529-532: rules_applied after the two alpha rules
alpha_applied(frame) ==
    \/ Candidates(frame, "conjunction") # {}
    \/ Candidates(apply_conjunction_rule(frame), "always") # {}

\* the SAT bridge never taken
sat_solver_unused(frame) == FALSE

\* Solver::_should_use_sat_solver
should_use_sat_solver(frame) ==
    use_sat /\ Candidates(frame, "disjunction") # {}

\* APPLY_RULE(rule), lines 463-485, when a candidate exists
apply_beta_rule(frame, rule) ==
    LET one == find_first(Candidates(frame, rule))
    IN  [frame EXCEPT !.to_process = @ \ {one}, !.choosenFormula = one,
                      !.type = "CHOICE"]

\* the rule loop with no beta rule
beta_rule_none(frame) == "none"

\* lines 534-587: the beta rule that fires on a frame the alpha rules have
\* been applied to; "none" when no beta rule fires.
beta_rule(frame) ==
    IF ~should_use_sat_solver(frame) /\ Candidates(frame, "disjunction") # {}
        THEN "disjunction"
    ELSE IF bitset.eventually # {} /\ Candidates(frame, "eventually") # {}
        THEN "eventually"
    ELSE IF bitset.until # {} /\ Candidates(frame, "until") # {}
        THEN "until"
    ELSE IF bitset.not_until # {} /\ Candidates(frame, "not_until") # {}
        THEN "not_until"
    ELSE "none"

\* lines 549-550: if (ev.is_not_requested()) ev.set_not_satisfied()
request(ev) == IF is_not_requested(ev) THEN set_not_satisfied(ev) ELSE ev

\* lines 548-550 and 561-563: the slot of formula f is requested
request_slot(evs, f) == [evs EXCEPT ![fw_eventualities_lut[f]] = request(@)]

\* lines 574-579: ev is a reference to the slot of lhs; "ev = ..." copies the
\* slot of rhs into it, and the second test is made on the slot of lhs again.
request_not_until(evs, l, r) ==
    LET first == request_slot(evs, l)
        copied == [first EXCEPT ![fw_eventualities_lut[l]] =
                                    first[fw_eventualities_lut[r]]]
    IN  request_slot(copied, l)

\* lines 538-540, 552-554, 565-567, 581-584: the first alternative of the
\* chosen formula, added to the child frame
first_alternative(rule, chosen) ==
    CASE rule = "disjunction" -> {lhs[chosen]}
      [] rule = "eventually" -> {lhs[chosen]}
      [] rule = "until" -> {rhs[chosen]}
      [] rule = "not_until" -> {lhs[chosen], rhs[chosen]}

\* lines 534-587: the CHOICE frame the top frame becomes when rule fires
choice_frame(frame, rule) ==
    LET picked == apply_beta_rule(frame, rule)
        c == picked.choosenFormula
    IN  CASE rule = "disjunction" -> picked
          [] rule = "eventually" ->
                [picked EXCEPT !.eventualities = request_slot(@, lhs[c])]
          [] rule = "until" ->
                [picked EXCEPT !.eventualities = request_slot(@, rhs[c])]
          [] rule = "not_until" ->
                [picked EXCEPT !.eventualities = request_not_until(@, lhs[c], rhs[c])]

\* the child pushed by a beta rule
choice_child(parent, rule) ==
    [Frame_copy(parent) EXCEPT
        !.formulas = @ \cup first_alternative(rule, parent.choosenFormula)]

\* lines 827-865: the second alternative of the chosen formula, in a build
\* with the assertions compiled out (NDEBUG): for a negated until whose
\* entry chosen + 1 is the Tomorrow of the until, the assertion of line 854
\* is false and the entry is asserted all the same
second_alternative(chosen) ==
    IF chosen \in bitset.disjunction THEN {rhs[chosen]}
    ELSE IF chosen \in bitset.eventually THEN {chosen + 1}
    ELSE IF chosen \in bitset.until THEN
        {lhs[chosen],
         IF (chosen + 1) \in bitset.tomorrow THEN chosen + 1 ELSE chosen + 2}
    ELSE IF chosen \in bitset.not_until THEN
        {rhs[chosen],
         IF (chosen + 1) \in bitset.tomorrow THEN chosen + 1 ELSE chosen + 2}
    ELSE {}

\* lines 252 and 289: _clause_size[i]
clause_size(i) == IF i \in bitset.disjunction THEN count(subformulas[i]) ELSE 1

\* line 615: the closure indices handed to the SAT solver
exposed(frame) ==
    (bitset.atom \cup bitset.tomorrow
        \cup ({i + 1 : i \in bitset.atom} \cap bitset.negation)
        \cup bitset.disjunction) \cap frame.formulas

\* lines 609-645: the frame once its clauses are in the solver
sat_frame(frame) ==
    LET e == exposed(frame)
    IN  [frame EXCEPT
            !.type = "SAT",
            !.solver = {{clauses[one][k] : k \in DOMAIN clauses[one]} : one \in e},
            !.literals = UNION {{clauses[one][k][1] : k \in 1..clause_size(one)} : one \in e},
            !.to_process = @ \ (e \cap bitset.disjunction)]

\* Minisat::Solver::solve and modelValue: the assignments of the frame's
\* literals that satisfy every clause, each given as its set of true variables
sat_models(frame) ==
    {T \in SUBSET frame.literals :
        \A c \in frame.solver : \E lit \in c : (lit[1] \in T) # lit[2]}

\* lines 671 and 898: the false variable l has its negation in the next slot
negation_slot(l) ==
    /\ (l + 1) \in DOMAIN subformulas
    /\ \/ (l + 1) \in bitset.negation
       \/ negative_leaf(subformulas[l + 1]) /\ isa("Tomorrow", subformulas[l + 1])

\* a clause that the assignment T itself satisfies
blocking_clause_weak(frame, T) == {Lit(l, FALSE) : l \in T}

\* lines 656-687 and 883-914: the blocking clause of the assignment T
blocking_clause(frame, T) ==
    {Lit(l, TRUE) : l \in T}
        \cup {Lit(l, FALSE) : l \in {x \in frame.literals \ T : negation_slot(x)}}

\* lines 655-685 and 882-912: the child committing the assignment T
sat_child(frame, T) ==
    [Frame_copy(frame) EXCEPT
        !.formulas = @ \cup T
                       \cup {l + 1 : l \in {x \in frame.literals \ T : negation_slot(x)}}]

\* lines 655-689 and 877-917: the stacks after the solver of the top frame
\* of stk returned the assignment T
sat_push(stk, T) ==
    LET top == stk[Len(stk)]
    IN  Append(ReplaceTop(stk, [top EXCEPT !.solver = @ \cup {blocking_clause(top, T)}]),
               sat_child(top, T))

\* the CHOICE frame is left as it was: its first alternative is tried again
keeps_alternative(top) == top

\* the CHOICE frame has its chosen formula put back in to_process
returns_chosen_formula(top) ==
    [top EXCEPT !.choosenFormula = FormulaID_max,
                !.to_process = @ \cup {top.choosenFormula}]

\* line 865: the CHOICE frame is marked as exploring its second alternative
takes_second_alternative(top) == [top EXCEPT !.choosenFormula = FormulaID_max]

\* Solver::_rollback_to_latest_choice: the stacks it can leave, one for each
\* assignment the solver of a SAT frame can return
RECURSIVE rollback_to_latest_choice(_)
rollback_to_latest_choice(stk) ==
    IF stk = <<>> THEN {<<>>}
    ELSE LET top == stk[Len(stk)]
         IN  IF top.type = "CHOICE" /\ top.choosenFormula # FormulaID_max
             THEN {Append(
                    ReplaceTop(stk, takes_second_alternative(top)),
                    [Frame_copy(top) EXCEPT
                        !.formulas = @ \cup second_alternative(top.choosenFormula)])}
             ELSE IF top.type = "SAT" /\ sat_models(top) # {}
             THEN {sat_push(stk, T) : T \in sat_models(top)}
             ELSE rollback_to_latest_choice(Pop(stk))

\* Solver::_update_eventualities_satisfaction
update_eventualities_satisfaction(frame) ==
    [frame EXCEPT !.eventualities =
        [s \in DOMAIN @ |->
            IF bw_eventualities_lut[s] \in frame.formulas
            THEN set_satisfied(@[s], frame.id) ELSE @[s]]]

\* the stack positions reached from position pos through chain, nearest first
RECURSIVE chain_walk(_, _)
chain_walk(stk, pos) ==
    IF pos = 0 THEN <<>> ELSE <<pos>> \o chain_walk(stk, stk[pos].chain)

\* the LOOP test without the comparison of line 724 against currFrame->id
loop_test_any_time(frame, currFrame) ==
    /\ frame.formulas \subseteq currFrame.formulas
    /\ \A s \in DOMAIN frame.eventualities :
          LET ev == frame.eventualities[s]
          IN  is_not_requested(ev) \/ is_satisfied(ev)

\* lines 715-730: the LOOP test of frame against the ancestor currFrame
loop_test(frame, currFrame) ==
    /\ frame.formulas \subseteq currFrame.formulas
    /\ \A s \in DOMAIN frame.eventualities :
          LET ev == frame.eventualities[s]
          IN  is_not_requested(ev) \/ (is_satisfied(ev) /\ ev.id >= currFrame.id)

\* lines 709-750: positions in the walk whose frame passes the LOOP test
loop_positions(stk, frame) ==
    LET walk == chain_walk(stk, frame.chain)
    IN  {k \in DOMAIN walk : loop_test(frame, stk[walk[k]])}

\* the REP rule waiting for a third ancestor with the formulas of the frame
rep_rule_third(stk, frame) ==
    LET walk == chain_walk(stk, frame.chain)
    IN  Cardinality({k \in DOMAIN walk : stk[walk[k]].formulas = frame.formulas}) >= 3

\* lines 741-747 and 753: repFrame1 and repFrame2 are both set
rep_rule(stk, frame) ==
    LET walk == chain_walk(stk, frame.chain)
    IN  Cardinality({k \in DOMAIN walk : stk[walk[k]].formulas = frame.formulas}) >= 2

\* the frame pushed by the STEP rule with no chain (nullptr for &frame)
step_child_unchained(frame, pos) ==
    [Frame_step(frame.id + 1, number_of_formulas, frame.eventualities, 0)
        EXCEPT !.formulas = {lhs[i] : i \in frame.formulas \cap bitset.tomorrow}]

\* the frame pushed by a STEP rule that carries the atoms of the parent over
step_child_carrying(frame, pos) ==
    [Frame_step(frame.id + 1, number_of_formulas, frame.eventualities, pos)
        EXCEPT !.formulas = {lhs[i] : i \in frame.formulas \cap bitset.tomorrow}
                                \cup (frame.formulas \cap bitset.atom)]

\* lines 769-796: the frame pushed by the STEP rule from the frame at position pos
step_child(frame, pos) ==
    [Frame_step(frame.id + 1, number_of_formulas, frame.eventualities, pos)
        EXCEPT !.formulas = {lhs[i] : i \in frame.formulas \cap bitset.tomorrow}]

(***************************************************************************)
(* Solver::model                                                           *)
(***************************************************************************)
\* lines 949-959: the literals of a frame; a literal is <<name, positive>>
model_state(frame) ==
    {<<subformulas[j][2], TRUE>> : j \in frame.formulas \cap bitset.atom}
        \cup {<<subformulas[lhs[j]][2], FALSE>> :
                j \in {k \in frame.formulas \cap bitset.negation : lhs[k] \in bitset.atom}}

\* the states of the model with the last one kept (no pop_back)
model_states_all(stk) ==
    LET kept == SelectSeq(stk, LAMBDA frame : frame.type \notin {"CHOICE", "SAT"})
    IN  [i \in 1..Len(kept) |-> model_state(kept[i])]

\* lines 944-965: one state per frame that is neither CHOICE nor SAT, the
\* last one dropped
model_states(stk) ==
    LET kept == SelectSeq(stk, LAMBDA frame : frame.type \notin {"CHOICE", "SAT"})
    IN  [i \in 1..(Len(kept) - 1) |-> model_state(kept[i])]

\* Solver::model without the test of line 928
model_when_not_paused ==
    IF result \in {"UNSATISFIABLE", "UNDEFINED"} THEN NoModel
    ELSE IF number_of_formulas = 1 /\ subformulas[0] = TrueF
        THEN [none |-> FALSE, states |-> <<{<<"TOP", TRUE>>}>>, loop_state |-> 0]
    ELSE [none |-> FALSE, states |-> model_states(stack), loop_state |-> loop_state]

\* Solver::model: the value returned in the current state
model ==
    IF state # "PAUSED" THEN NoModel
    ELSE IF result \in {"UNSATISFIABLE", "UNDEFINED"} THEN NoModel
    ELSE IF number_of_formulas = 1 /\ subformulas[0] = TrueF
        THEN [none |-> FALSE, states |-> <<{<<"TOP", TRUE>>}>>, loop_state |-> 0]
    ELSE [none |-> FALSE, states |-> model_states(stack), loop_state |-> loop_state]

(***************************************************************************)
(* Standard LTL semantics on ultimately periodic words.  A word is a       *)
(* sequence w of sets of atom names (the atoms true at each position)      *)
(* with the index loop (0-based) its last position goes back to.           *)
(***************************************************************************)
AtomNames == {"p", "q"}

Successor(w, loop, i) == IF i < Len(w) THEN i + 1 ELSE loop + 1

\* the positions visited from i, in order; Len(w) of them cover all that
\* can be reached
RECURSIVE PathFrom(_, _, _, _)
PathFrom(w, loop, i, n) ==
    IF n = 0 THEN <<>> ELSE <<i>> \o PathFrom(w, loop, Successor(w, loop, i), n - 1)

RECURSIVE Holds(_, _, _, _)
Holds(f, w, loop, i) ==
    CASE f = TrueF -> TRUE
      [] f = FalseF -> FALSE
      [] isa("Atom", f) -> f[2] \in w[i]
      [] isa("Negation", f) -> ~Holds(f[2], w, loop, i)
      [] isa("Tomorrow", f) -> Holds(f[2], w, loop, Successor(w, loop, i))
      [] isa("Always", f) ->
            LET path == PathFrom(w, loop, i, Len(w))
            IN  \A k \in DOMAIN path : Holds(f[2], w, loop, path[k])
      [] isa("Eventually", f) ->
            LET path == PathFrom(w, loop, i, Len(w))
            IN  \E k \in DOMAIN path : Holds(f[2], w, loop, path[k])
      [] isa("Conjunction", f) -> Holds(f[2], w, loop, i) /\ Holds(f[3], w, loop, i)
      [] isa("Disjunction", f) -> Holds(f[2], w, loop, i) \/ Holds(f[3], w, loop, i)
      [] isa("Until", f) ->
            LET path == PathFrom(w, loop, i, Len(w))
            IN  \E k \in DOMAIN path :
                    /\ Holds(f[3], w, loop, path[k])
                    /\ \A j \in 1..(k - 1) : Holds(f[2], w, loop, path[j])

\* the words a model stands for: every literal of a state is respected, the
\* atoms a state does not mention are free
WordsOf(m) ==
    {w \in [DOMAIN m.states -> SUBSET AtomNames] :
        \A i \in DOMAIN m.states : \A lit \in m.states[i] :
            (lit[1] \in w[i]) = lit[2]}

\* some word of m satisfies f
ModelAdmits(m, f) ==
    /\ Len(m.states) >= 1
    /\ m.loop_state < Len(m.states)
    /\ \E w \in WordsOf(m) : Holds(f, w, m.loop_state, 1)

(***************************************************************************)
(* The calls of the interface                                              *)
(***************************************************************************)
Returned(res) == [op |-> "solve", result |-> res, model |-> NoModel]

\* the alternatives taken on a branch: for each CHOICE frame the formula
\* whose first alternative is being explored (FormulaID_max once the second
\* is), for each SAT frame the clauses that block the assignments it gave
Branch(stk) ==
    LET decisions == SelectSeq(stk, LAMBDA frame : frame.type \in {"CHOICE", "SAT"})
    IN  [i \in DOMAIN decisions |->
            IF decisions[i].type = "CHOICE"
            THEN <<"CHOICE", decisions[i].id, {decisions[i].choosenFormula}>>
            ELSE <<"SAT", decisions[i].id, decisions[i].solver>>]

\* Solver::solution, lines 496-502, called on a solver that has not run yet
SolveStart ==
    /\ state = "INITIALIZED"
    /\ calls < MaxCalls
    /\ state' = "RUNNING"
    /\ ret' = NoReturn
    /\ calls' = calls + 1
    /\ UNCHANGED <<params, tables, result, loop_state, stack, accepted, runs, previous>>

\* the saved stack is examined again as it was left
resume_in_place(stk) == {stk}

\* lines 499-500: what a call on a paused solver does to the saved stack
resume(stk) == rollback_to_latest_choice(stk)

\* Solver::solution, lines 499-502, called on a paused solver
SolveResume ==
    /\ state = "PAUSED"
    /\ calls < MaxCalls
    /\ stack' \in resume(stack)
    /\ state' = "RUNNING"
    /\ ret' = NoReturn
    /\ calls' = calls + 1
    /\ UNCHANGED <<params, tables, result, loop_state, accepted, runs, previous>>

\* Solver::solution, lines 496-497, called on a solver that is done
SolveDone ==
    /\ state = "DONE"
    /\ calls < MaxCalls
    /\ ret' = Returned(result)
    /\ calls' = calls + 1
    /\ UNCHANGED <<params, tables, state, result, loop_state, stack, accepted,
                   runs, previous>>

\* Solver::model, called between two calls of solution
ModelCall ==
    /\ state # "RUNNING"
    /\ ret' = [op |-> "model", result |-> result, model |-> model]
    /\ UNCHANGED <<params, tables, state, result, loop_state, stack, history>>

\* the current solver has been asked for one solution so far
first_call == calls = runs

\* Solver::Solver, called again with the same arguments once the first
\* solution() and model() of the current solver have returned
Reconstruct ==
    /\ ret.op = "model"
    /\ first_call
    /\ runs < MaxRuns
    /\ previous' = ret
    /\ runs' = runs + 1
    /\ state' = initial_state
    /\ result' = initial_result
    /\ stack' = initial_stack
    /\ loop_state' = 0
    /\ ret' = NoReturn
    /\ accepted' = <<>>
    /\ UNCHANGED <<params, tables, calls>>

(***************************************************************************)
(* Solver::solution: one pass through the body of the rule loop            *)
(***************************************************************************)
Examining == state = "RUNNING" /\ stack # <<>>

\* _result is returned as the search left it
exhausted_result_kept(res) == res

\* lines 800-801: _result once the stack is exhausted
exhausted_result(res) == IF res = "UNDEFINED" THEN "UNSATISFIABLE" ELSE res

\* lines 799-803: the stack is exhausted
Finish ==
    /\ state = "RUNNING"
    /\ stack = <<>>
    /\ state' = "DONE"
    /\ result' = exhausted_result(result)
    /\ ret' = Returned(result')
    /\ UNCHANGED <<params, tables, loop_state, stack, history>>

\* lines 515-521: the top frame is empty
AcceptEmpty ==
    /\ Examining
    /\ Top.formulas = {}
    /\ Top.chain # 0
    /\ state' = "PAUSED"
    /\ result' = "SATISFIABLE"
    /\ loop_state' = stack[Top.chain].id
    /\ ret' = Returned("SATISFIABLE")
    /\ accepted' = Append(accepted, Branch(stack))
    /\ UNCHANGED <<params, tables, stack, calls, runs, previous>>

\* lines 523-527
Contradiction ==
    /\ Examining
    /\ Top.formulas # {}
    /\ check_contradiction_rule(Top)
    /\ stack' \in rollback_to_latest_choice(stack)
    /\ UNCHANGED <<params, tables, state, result, loop_state, ret, history>>

\* the top frame passed the tests of lines 515-527
Consistent == Examining /\ Top.formulas # {} /\ ~check_contradiction_rule(Top)

\* lines 529-587: the stack after the beta rule fired, the alpha rules of
\* the same pass applied first
beta_push(stk, rule) ==
    LET parent == choice_frame(AfterAlpha(stk[Len(stk)]), rule)
    IN  Append(ReplaceTop(stk, parent), choice_child(parent, rule))

\* lines 534-544
DisjunctionRule ==
    /\ Consistent
    /\ beta_rule(AfterAlpha(Top)) = "disjunction"
    /\ stack' = beta_push(stack, "disjunction")
    /\ UNCHANGED <<params, tables, state, result, loop_state, ret, history>>

\* lines 546-557
EventuallyRule ==
    /\ Consistent
    /\ beta_rule(AfterAlpha(Top)) = "eventually"
    /\ stack' = beta_push(stack, "eventually")
    /\ UNCHANGED <<params, tables, state, result, loop_state, ret, history>>

\* lines 559-570
UntilRule ==
    /\ Consistent
    /\ beta_rule(AfterAlpha(Top)) = "until"
    /\ stack' = beta_push(stack, "until")
    /\ UNCHANGED <<params, tables, state, result, loop_state, ret, history>>

\* lines 572-587
NotUntilRule ==
    /\ Consistent
    /\ beta_rule(AfterAlpha(Top)) = "not_until"
    /\ stack' = beta_push(stack, "not_until")
    /\ UNCHANGED <<params, tables, state, result, loop_state, ret, history>>

\* lines 529-532 and 589-590: only alpha rules fired
AlphaRules ==
    /\ Consistent
    /\ beta_rule(AfterAlpha(Top)) = "none"
    /\ alpha_applied(Top)
    /\ stack' = ReplaceTop(stack, AfterAlpha(Top))
    /\ UNCHANGED <<params, tables, state, result, loop_state, ret, history>>

\* lines 606-691: no rule fired and disjunctions are pending
EntersSat ==
    /\ Consistent
    /\ ~alpha_applied(Top)
    /\ beta_rule(Top) = "none"
    /\ should_use_sat_solver(Top)

\* lines 647-653: the solver finds no assignment
SatUnsat ==
    /\ EntersSat
    /\ sat_models(sat_frame(Top)) = {}
    /\ stack' \in rollback_to_latest_choice(
                    ReplaceTop(stack, [sat_frame(Top) EXCEPT !.type = "UNKNOWN"]))
    /\ UNCHANGED <<params, tables, state, result, loop_state, ret, history>>

\* lines 655-690: the solver returns an assignment
SatAssign ==
    /\ EntersSat
    /\ \E T \in sat_models(sat_frame(Top)) :
          stack' = sat_push(ReplaceTop(stack, sat_frame(Top)), T)
    /\ UNCHANGED <<params, tables, state, result, loop_state, ret, history>>

\* no rule applies to the top frame and the SAT bridge is not entered:
\* control leaves the inner loop (line 692)
Expanded ==
    /\ Consistent
    /\ ~alpha_applied(Top)
    /\ beta_rule(Top) = "none"
    /\ ~should_use_sat_solver(Top)

\* line 694
Updated == ReplaceTop(stack, update_eventualities_satisfaction(Top))

\* line 703: the walk over the ancestors is skipped for this draw
skip_lookback(draw) == draw > backtrack_probability

\* lines 709-738: the LOOP rule accepts on the nearest ancestor passing the test
LoopRule ==
    /\ Expanded
    /\ \E draw \in DrawValues : ~skip_lookback(draw)
    /\ LET stk == Updated
           frame == stk[Len(stk)]
           hits == loop_positions(stk, frame)
       IN  /\ hits # {}
           /\ stack' = stk
           /\ loop_state' = stk[chain_walk(stk, frame.chain)[find_first(hits)]].id
    /\ state' = "PAUSED"
    /\ result' = "SATISFIABLE"
    /\ ret' = Returned("SATISFIABLE")
    /\ accepted' = Append(accepted, Branch(stack'))
    /\ UNCHANGED <<params, tables, calls, runs, previous>>

\* lines 740-758: the REP rule prunes
RepRule ==
    /\ Expanded
    /\ \E draw \in DrawValues : ~skip_lookback(draw)
    /\ LET stk == Updated
           frame == stk[Len(stk)]
       IN  /\ loop_positions(stk, frame) = {}
           /\ rep_rule(stk, frame)
           /\ stack' \in rollback_to_latest_choice(stk)
    /\ UNCHANGED <<params, tables, state, result, loop_state, ret, history>>

\* control reaches the label step_rule (line 761)
ReachesStep ==
    /\ Expanded
    /\ \E draw \in DrawValues :
          \/ skip_lookback(draw)
          \/ /\ loop_positions(Updated, Updated[Len(Updated)]) = {}
             /\ ~rep_rule(Updated, Updated[Len(Updated)])

\* the depth test written with > for >=
depth_exceeded(frame) == frame.id > maximum_depth

\* line 762: the depth bound is reached
depth_exhausted(frame) == frame.id >= maximum_depth

\* lines 762-766: the depth bound
DepthCut ==
    /\ ReachesStep
    /\ depth_exhausted(Top)
    /\ stack' \in rollback_to_latest_choice(Updated)
    /\ UNCHANGED <<params, tables, state, result, loop_state, ret, history>>

\* lines 768-796: the STEP rule
StepRule ==
    /\ ReachesStep
    /\ ~depth_exhausted(Top)
    /\ LET stk == Updated
           frame == stk[Len(stk)]
       IN  stack' = Append(ReplaceTop(stk, [frame EXCEPT !.type = "STEP"]),
                           step_child(frame, Len(stk)))
    /\ UNCHANGED <<params, tables, state, result, loop_state, ret, history>>

\* the passes through the rule loop, made while a call of solution() runs
Round ==
    \/ Finish
    \/ AcceptEmpty
    \/ Contradiction
    \/ DisjunctionRule
    \/ EventuallyRule
    \/ UntilRule
    \/ NotUntilRule
    \/ AlphaRules
    \/ SatUnsat
    \/ SatAssign
    \/ LoopRule
    \/ RepRule
    \/ DepthCut
    \/ StepRule

Next ==
    \/ SolveStart
    \/ SolveResume
    \/ SolveDone
    \/ ModelCall
    \/ Reconstruct
    \/ Finish
    \/ AcceptEmpty
    \/ Contradiction
    \/ DisjunctionRule
    \/ EventuallyRule
    \/ UntilRule
    \/ NotUntilRule
    \/ AlphaRules
    \/ SatUnsat
    \/ SatAssign
    \/ LoopRule
    \/ RepRule
    \/ DepthCut
    \/ StepRule

Spec == Init /\ [][Next]_vars

\* a call of solution() runs without interruption until it returns
FairSpec == Spec /\ WF_vars(Round)

(***************************************************************************)
(* Properties of the verdicts                                              *)
(***************************************************************************)
\* the paused solver holds a model, returned by model()
HoldsModel == state = "PAUSED" /\ result = "SATISFIABLE" /\ ~model.none

\* C1: whenever solve() returns SATISFIABLE and model() returns a model, the
\* word that repeats the states of the model from loop_state on satisfies
\* the input formula (soundness).  The atoms a state of the model leaves
\* open are read in the way most favourable to the formula.
Soundness == HoldsModel => ModelAdmits(model, input)

\* f has a lasso model that a frame of id at most depth can close: frame n
\* closes a model of n states at the earliest, model() dropping the last
\* state of the walk
HasLassoModel(f, depth) ==
    \E n \in 1..(depth - 1) : \E w \in [1..n -> SUBSET AtomNames] :
        \E loop \in 0..(n - 1) : Holds(f, w, loop, 1)

\* the first call of solution() on the current solver has just returned
FirstReturn == ret.op = "solve" /\ first_call

\* C2: with the lookback performed at every round and the SAT bridge
\* disabled, the first solve() returns SATISFIABLE for every input that has
\* a lasso model within depth maximum_depth (bounded completeness).
BoundedCompleteness ==
    (/\ FirstReturn
     /\ backtrack_probability = 100
     /\ ~use_sat
     /\ ret.result # "SATISFIABLE") => ~HasLassoModel(input, maximum_depth)

\* the first model() of the current solver has returned, and so had the
\* first model() of the solver constructed before it with the same arguments
SecondRun == previous.op = "model" /\ ret.op = "model" /\ first_call

\* C3: with backtrack_probability = 0 and no SAT solver, two runs of
\* solve() followed by model() on the same input and maximum_depth give
\* the same verdict, the same model states and the same loop_state,
\* whatever the lookback draws are (determinism).
Determinism ==
    (SecondRun /\ backtrack_probability = 0 /\ ~use_sat)
        => (ret.result = previous.result /\ ret.model = previous.model)

\* C4: under FairSpec each call of solve() eventually returns, whatever the
\* lookback draws are (termination).
Termination == (state = "RUNNING") ~> (state \in {"PAUSED", "DONE"})

\* a call of solution() returned after the stack went through all the
\* frames of a search of depth at least 2 without any lookback
TerminationWitness ==
    /\ ret.op = "solve"
    /\ state = "DONE"
    /\ result = "UNSATISFIABLE"
    /\ backtrack_probability = 0
    /\ maximum_depth >= 2
    /\ ~constant_closure

\* C5: whenever a call of solve() returns SATISFIABLE, a model() call made
\* immediately afterwards returns a model and not none: after the first
\* call, after a resumed call, and for an input that simplifies to True.
SatisfiableHasModel ==
    (ret.op = "solve" /\ ret.result = "SATISFIABLE") => ~model.none

\* C6: when the closure of the simplified input is the single formula True,
\* model() returns one state holding the literal for true, loop_state = 0.
TrueClosureModel ==
    (ret.op = "model" /\ number_of_formulas = 1 /\ subformulas[0] = TrueF)
        => ret.model = [none |-> FALSE, states |-> <<{<<"TOP", TRUE>>}>>,
                        loop_state |-> 0]

\* C7: a model() call made while the solver is not PAUSED, or while its
\* result is UNSATISFIABLE or UNDEFINED, returns none and leaves the state,
\* the result and the stack of the solver as they were.
ModelNone ==
    [][(/\ ret'.op = "model"
        /\ ret' # ret
        /\ state # "PAUSED" \/ result \in {"UNSATISFIABLE", "UNDEFINED"})
            => (ret'.model.none /\ UNCHANGED <<state, result, stack>>)]_vars

\* model() returned none both before the first solve() and after the search
\* ended: here on a solver that is done after two calls
ModelNoneWitness ==
    /\ ret.op = "model"
    /\ ret.model.none
    /\ state = "DONE"
    /\ calls > runs
    /\ ~constant_closure

\* C8: when the stack becomes empty and no frame was ever accepted, solve()
\* returns UNSATISFIABLE and the solver is DONE; a later solve() on that
\* solver returns UNSATISFIABLE again and leaves the stack alone.
ExhaustedIsUnsat ==
    [][/\ (state = "RUNNING" /\ stack = <<>> /\ accepted = <<>>)
            => (/\ state' = "DONE"
                /\ result' = "UNSATISFIABLE"
                /\ ret' = Returned("UNSATISFIABLE"))
       /\ (state = "DONE" /\ accepted = <<>> /\ ~constant_closure /\ runs' = runs)
            => (/\ state' = "DONE"
                /\ result' = "UNSATISFIABLE"
                /\ stack' = stack
                /\ calls' # calls => ret' = Returned("UNSATISFIABLE"))]_vars

\* a search ended without accepting a frame, and solve() was called again
ExhaustedWitness ==
    /\ ~constant_closure
    /\ state = "DONE"
    /\ accepted = <<>>
    /\ calls > runs
    /\ ret = Returned("UNSATISFIABLE")

\* C9: a solve() call on a paused solver first rolls the saved stack back
\* to its latest choice, and a pause is never reached on a branch the
\* solver paused on before: the branches differ in a CHOICE alternative or
\* in the assignment of a SAT frame.
ResumeContinues ==
    [][/\ (state = "PAUSED" /\ state' = "RUNNING")
            => stack' \in rollback_to_latest_choice(stack)
       /\ accepted' # accepted /\ runs' = runs
            => \A i \in DOMAIN accepted : accepted[i] # Branch(stack')]_vars

\* the solver paused, was resumed and paused again
ResumeWitness == state = "PAUSED" /\ Len(accepted) >= 2 /\ calls > runs

\* C10: no frame on the stack has an id above maximum_depth, and no frame
\* whose id is maximum_depth or more has been given a STEP child.
DepthBound ==
    \A i \in DOMAIN stack :
        /\ stack[i].id <= maximum_depth
        /\ stack[i].type = "STEP" => stack[i].id < maximum_depth

\* a search reached the deepest frame it may build, below STEP frames
DepthWitness ==
    /\ maximum_depth >= 2
    /\ stack # <<>>
    /\ Top.id = maximum_depth
    /\ \E i \in DOMAIN stack : stack[i].type = "STEP" /\ stack[i].id = maximum_depth - 1

(***************************************************************************)
(* Properties of the rules                                                 *)
(***************************************************************************)
\* solution() paused through the LOOP rule: the accepting frame is on top
\* of the stack, and it is not empty
LoopAccepted == state = "PAUSED" /\ stack # <<>> /\ Top.formulas # {}

\* the stack positions of the chain frames of the period, for the accepting
\* frame on top of the stack: the chain frames whose id is loop_state or more
Period == {pos \in {chain_walk(stack, Top.chain)[k] :
                        k \in DOMAIN chain_walk(stack, Top.chain)} :
              stack[pos].id >= loop_state}

\* C11: when solve() accepts through the LOOP rule with ancestor A and
\* accepting frame F, every eventuality slot requested in F has its
\* companion subformula asserted in a chain frame with id in A.id..F.id-1.
FulfilledInPeriod ==
    LoopAccepted =>
        \A s \in DOMAIN Top.eventualities :
            ~is_not_requested(Top.eventualities[s]) =>
                \E pos \in Period : bw_eventualities_lut[s] \in stack[pos].formulas

(***************************************************************************)
(* Properties of the construction                                          *)
(***************************************************************************)
\* Solver::Solver for every combination of the three percentage arguments
ConfigInit ==
    /\ \E probability \in ConfigArgs : \E minimum \in ConfigArgs :
          \E maximum \in ConfigArgs :
              Construct(p, 1, probability, minimum, maximum, FALSE)
    /\ ret = NoReturn
    /\ calls = 0
    /\ accepted = <<>>
    /\ runs = 1
    /\ previous = NoReturn

\* Solver::Solver, lines 19-31, called again with other percentages
Configure ==
    \E probability \in ConfigArgs : \E minimum \in ConfigArgs :
      \E maximum \in ConfigArgs :
        /\ arguments' = [backtrack_probability |-> probability,
                         minimum_backtrack |-> minimum,
                         maximum_backtrack |-> maximum]
        /\ backtrack_probability' = clamp_probability(probability)
        /\ maximum_backtrack' = clamp_maximum(maximum)
        /\ minimum_backtrack' = clamp_minimum(minimum, clamp_maximum(maximum))
        /\ UNCHANGED <<input, formula, maximum_depth, use_sat, tables, state,
                       result, loop_state, stack, ret, history>>

ConfigSpec == ConfigInit /\ [][Configure]_vars

\* the smaller of two numbers
Least(a, b) == IF a <= b THEN a ELSE b

\* C12: for every combination of constructor arguments, after construction
\* backtrack_probability <= 100 and minimum_backtrack <= maximum_backtrack
\* <= 100; a value in range is kept and a value out of range is replaced by
\* the bound it exceeds, and the solver is constructed all the same.
ConfigurationClamped ==
    /\ backtrack_probability <= 100
    /\ minimum_backtrack <= maximum_backtrack
    /\ maximum_backtrack <= 100
    /\ backtrack_probability = Least(arguments.backtrack_probability, 100)
    /\ maximum_backtrack = Least(arguments.maximum_backtrack, 100)
    /\ minimum_backtrack = Least(arguments.minimum_backtrack, maximum_backtrack)
    /\ state \in {"INITIALIZED", "DONE"}

\* a solver constructed with all three arguments out of range, the minimum
\* above the maximum
ClampedWitness ==
    /\ arguments.backtrack_probability > 100
    /\ arguments.maximum_backtrack > 100
    /\ arguments.minimum_backtrack > arguments.maximum_backtrack
    /\ state = "INITIALIZED"
    /\ minimum_backtrack = 100

(***************************************************************************)
(* Properties of the closure                                               *)
(***************************************************************************)
\* compareFunc is a strict total order on the closure, and the closure is
\* sorted by it.  The closure is built by the constructor and never written
\* afterwards, so the properties of the closure are stated for the solver as
\* constructed, before the first call of solution() (calls = 0).
StrictTotalOrder ==
    /\ \A i \in DOMAIN subformulas : ~compareFunc(subformulas[i], subformulas[i])
    /\ \A i, j \in DOMAIN subformulas :
          i # j => (compareFunc(subformulas[i], subformulas[j])
                        # compareFunc(subformulas[j], subformulas[i]))
    /\ \A i, j, k \in DOMAIN subformulas :
          compareFunc(subformulas[i], subformulas[j])
              /\ compareFunc(subformulas[j], subformulas[k])
                  => compareFunc(subformulas[i], subformulas[k])
    /\ \A i, j \in DOMAIN subformulas :
          i < j => compareFunc(subformulas[i], subformulas[j])

\* C13, as stated: the comparator is a strict total order on the closure and
\* the negation of a closure formula, when in the closure, sits at the index
\* just below the formula's.
NegationJustBelow ==
    calls = 0 =>
        /\ StrictTotalOrder
        /\ \A i, j \in DOMAIN subformulas :
              subformulas[j] = Negation(subformulas[i]) => j = i - 1

\* C13, amended: the comparator is a strict total order on the closure and
\* the negation of a closure formula, when in the closure, sits at the index
\* just above the formula's.
NegationJustAbove ==
    calls = 0 =>
        /\ StrictTotalOrder
        /\ \A i, j \in DOMAIN subformulas :
              subformulas[j] = Negation(subformulas[i]) => j = i + 1

\* a solver just constructed whose closure holds an atom and an until formula
\* with their negations
NegationPairsWitness ==
    /\ calls = 0
    /\ \E i, j \in DOMAIN subformulas :
          /\ isa("Atom", subformulas[i])
          /\ subformulas[j] = Negation(subformulas[i])
    /\ \E i, j \in DOMAIN subformulas :
          /\ isa("Until", subformulas[i])
          /\ subformulas[j] = Negation(subformulas[i])

\* C14: after construction, for every closure index i flagged in the negation
\* bitset, index i-1 is in the closure, is not flagged as negation, is the
\* formula under the negation, and lhs[i] = i-1.
ClosurePairing ==
    \A i \in bitset.negation :
        /\ (i - 1) \in DOMAIN subformulas
        /\ (i - 1) \notin bitset.negation
        /\ subformulas[i] = Negation(subformulas[i - 1])
        /\ lhs[i] = i - 1

\* a closure with two indices flagged as negation and the negation of an
\* until, which is not flagged
PairingWitness ==
    /\ Cardinality(bitset.negation) >= 2
    /\ bitset.not_until # {}

\* C15: for every closure index i flagged always or eventually, index i+1 is
\* flagged tomorrow and lhs[i+1] = i; for every index i flagged until or
\* not_until, the tomorrow node whose lhs is i sits at i+1, or at i+2 when
\* i+1 is not a tomorrow node.  These are the adjacency assertions of the
\* always rule (line 454) and of the rollback's second alternatives (lines
\* 832, 840, 845, 854, 859).
XAdjacency ==
    /\ \A i \in bitset.always \cup bitset.eventually :
          (i + 1) \in bitset.tomorrow /\ lhs[i + 1] = i
    /\ \A i \in bitset.until \cup bitset.not_until :
          LET skin == IF (i + 1) \in bitset.tomorrow THEN i + 1 ELSE i + 2
          IN  skin \in bitset.tomorrow /\ lhs[skin] = i

(***************************************************************************)
(* Properties of the lookback                                              *)
(***************************************************************************)
\* C16: on a fully expanded frame F, a round pauses only with SATISFIABLE and
\* loop_state = A.id for the nearest chain ancestor A such that F.formulas is
\* a subset of A.formulas and every slot of F that is not UNREQUESTED is
\* SATISFIED with a timestamp >= A.id; and when the lookback is performed in
\* every round (backtrack_probability = 100) and such an ancestor exists,
\* the round does pause.
LoopRuleExact ==
    [][Expanded =>
        LET F == update_eventualities_satisfaction(Top)
            walk == chain_walk(stack, Top.chain)
            passing == {k \in DOMAIN walk :
                          /\ F.formulas \subseteq stack[walk[k]].formulas
                          /\ \A s \in DOMAIN F.eventualities :
                                F.eventualities[s].st # "UNREQUESTED"
                                    => /\ F.eventualities[s].st = "SATISFIED"
                                       /\ F.eventualities[s].id >= stack[walk[k]].id}
        IN  /\ state' = "PAUSED" =>
                  /\ passing # {}
                  /\ result' = "SATISFIABLE"
                  /\ \A k \in passing : (\A j \in passing : j >= k) =>
                        loop_state' = stack[walk[k]].id
                  /\ stack' = ReplaceTop(stack, F)
            /\ (backtrack_probability = 100 /\ passing # {}) => state' = "PAUSED"
    ]_vars

\* the LOOP rule has accepted on an ancestor that is not the nearest one, with
\* a slot of the accepting frame requested
LoopWitness ==
    /\ LoopAccepted
    /\ \E s \in DOMAIN Top.eventualities : is_satisfied(Top.eventualities[s])
    /\ Top.chain # 0
    /\ stack[Top.chain].id > loop_state

\* C17: when the lookback is performed in every round (backtrack_probability
\* = 100), a fully expanded frame F none of whose chain ancestors passes the
\* LOOP test and at least two of whose chain ancestors have the formulas of F
\* gets no STEP child: the engine rolls back; and no chain ever holds three
\* STEP frames with identical formulas sets.
RepRulePrunes ==
    /\ [][(Expanded /\ backtrack_probability = 100) =>
            LET F == update_eventualities_satisfaction(Top)
                walk == chain_walk(stack, Top.chain)
                twins == {k \in DOMAIN walk : stack[walk[k]].formulas = F.formulas}
            IN  (loop_positions(Updated, F) = {} /\ Cardinality(twins) >= 2) =>
                    /\ Len(stack') <= Len(stack)
                    /\ stack' \in rollback_to_latest_choice(Updated)
                    /\ state' = "RUNNING"
         ]_vars
    /\ [](backtrack_probability = 100 =>
            \A c \in DOMAIN stack :
                LET walk == chain_walk(stack, stack[c].chain)
                IN  stack[c].type = "STEP" =>
                        Cardinality({k \in DOMAIN walk :
                            /\ stack[walk[k]].type = "STEP"
                            /\ stack[walk[k]].formulas = stack[c].formulas}) < 2)

\* a fully expanded frame below the depth bound with two chain ancestors of
\* the same formulas and no ancestor passing the LOOP test, in a solver that
\* always looks back
RepWitness ==
    /\ Expanded
    /\ ~depth_exhausted(Top)
    /\ backtrack_probability = 100
    /\ loop_positions(Updated, Updated[Len(Updated)]) = {}
    /\ Cardinality({pos \in DOMAIN stack :
            /\ \E k \in DOMAIN chain_walk(stack, Top.chain) :
                  chain_walk(stack, Top.chain)[k] = pos
            /\ stack[pos].type = "STEP"
            /\ stack[pos].formulas = Top.formulas}) = 2

(***************************************************************************)
(* Properties of the rule loop                                             *)
(***************************************************************************)
\* C18: whenever the top frame's formulas set is empty at the start of a rule
\* iteration, the call returns SATISFIABLE in state PAUSED with loop_state
\* the id of the frame its chain points to, the stack untouched; and in
\* every reachable state a frame with an empty formulas set has a chain and
\* an id of at least 1.
EmptyAccepted ==
    /\ [][(Examining /\ Top.formulas = {}) =>
            /\ Top.chain \in DOMAIN stack
            /\ state' = "PAUSED"
            /\ result' = "SATISFIABLE"
            /\ loop_state' = stack[Top.chain].id
            /\ ret' = Returned("SATISFIABLE")
            /\ stack' = stack
         ]_vars
    /\ [](\A pos \in DOMAIN stack :
            stack[pos].formulas = {} =>
                /\ stack[pos].chain \in 1..(pos - 1)
                /\ stack[pos].id >= 1)

\* solution() has paused on an empty frame whose chain points to a frame with
\* id of at least 1
EmptyWitness ==
    /\ state = "PAUSED"
    /\ stack # <<>>
    /\ Top.formulas = {}
    /\ loop_state >= 1
    /\ loop_state = stack[Top.chain].id

\* a frame asserts a formula flagged as negation together with its negand
AssertsPair(frame) ==
    \E i \in frame.formulas \cap bitset.negation : (i - 1) \in frame.formulas

\* C19: a frame that asserts both a negation-flagged index i and index i-1
\* is rolled back before any further rule is applied to it: a top frame that
\* asserts such a pair is rolled back, and neither a frame a rule has been
\* applied to (CHOICE, SAT or STEP) nor a frame accepted by the LOOP rule
\* asserts one, with the SAT bridge enabled or disabled.
NoRuleOnPair ==
    /\ [][(Examining /\ AssertsPair(Top)) =>
            stack' \in rollback_to_latest_choice(stack)]_vars
    /\ [](\A pos \in DOMAIN stack :
            stack[pos].type = "STEP" => ~AssertsPair(stack[pos]))
    /\ [](LoopAccepted => ~AssertsPair(Top))
    /\ [](\A pos \in DOMAIN stack :
            stack[pos].type \in {"CHOICE", "SAT"} => ~AssertsPair(stack[pos]))

\* C20: whenever a beta rule (disjunction, eventually, until, not_until) turns
\* a frame into a CHOICE frame, that frame has no pending alpha candidate:
\* formulas /\ to_process /\ (conjunction \/ always) is empty.  A CHOICE frame
\* is left as the rule made it until it is popped, but for choosenFormula.
AlphaFixedPoint ==
    \A pos \in DOMAIN stack :
        stack[pos].type = "CHOICE" =>
            stack[pos].formulas \cap stack[pos].to_process
                \cap (bitset.conjunction \cup bitset.always) = {}

(***************************************************************************)
(* Properties of the STEP rule                                             *)
(***************************************************************************)
\* C21: every frame of kind STEP has no pending alpha or beta candidate:
\* formulas, to_process and the union of conjunction, always, disjunction,
\* eventually, until and not_until have no index in common; and a frame
\* becomes STEP only in a round where neither the LOOP rule nor the REP rule
\* concluded on it, which with the lookback performed at every round
\* (backtrack_probability = 100) means neither condition held.
StepFullyExpanded ==
    /\ [](\A pos \in DOMAIN stack :
            stack[pos].type = "STEP" =>
                stack[pos].formulas \cap stack[pos].to_process
                    \cap (bitset.conjunction \cup bitset.always
                            \cup bitset.disjunction \cup bitset.eventually
                            \cup bitset.until \cup bitset.not_until) = {})
    /\ [][(/\ stack # <<>>
           /\ Len(stack') = Len(stack) + 1
           /\ Top.type # "STEP"
           /\ stack'[Len(stack)].type = "STEP")
            => LET F == stack'[Len(stack)]
                   walk == chain_walk(stack', F.chain)
                   same == {k \in DOMAIN walk :
                               stack'[walk[k]].formulas = F.formulas}
                   closing == {k \in DOMAIN walk :
                       /\ F.formulas \subseteq stack'[walk[k]].formulas
                       /\ \A s \in DOMAIN F.eventualities :
                             \/ F.eventualities[s].st = "UNREQUESTED"
                             \/ /\ F.eventualities[s].st = "SATISFIED"
                                /\ F.eventualities[s].id >= stack'[walk[k]].id}
               IN  /\ state = "RUNNING" /\ state' = "RUNNING"
                   /\ backtrack_probability = 100
                        => (closing = {} /\ Cardinality(same) < 2)]_vars

\* a frame that asserts a beta formula took STEP below two chain ancestors,
\* with the lookback performed at every round
StepExpandedWitness ==
    \E pos \in DOMAIN stack :
        /\ stack[pos].type = "STEP"
        /\ stack[pos].id >= 2
        /\ backtrack_probability = 100
        /\ stack[pos].formulas
              \cap (bitset.disjunction \cup bitset.eventually
                      \cup bitset.until \cup bitset.not_until) # {}
        /\ stack[pos].formulas \cap (bitset.conjunction \cup bitset.always) # {}

\* C22: the frame pushed by STEP from the parent P has id P.id + 1, P as
\* its chain, the eventuality records of P and exactly the formulas
\* lhs[j] for the Tomorrow entries j asserted in P; P becomes STEP and
\* keeps its formulas, its to_process and the eventuality records it had
\* when the rule began, which are those left by the update of line 694;
\* the frames below P are unchanged.
StepResult ==
    [][(/\ stack # <<>>
        /\ Len(stack') = Len(stack) + 1
        /\ Top.type # "STEP"
        /\ stack'[Len(stack)].type = "STEP")
        => LET P == Top
               after == stack'[Len(stack)]
               child == stack'[Len(stack')]
           IN  /\ child.id = P.id + 1
               /\ child.chain = Len(stack)
               /\ child.eventualities = after.eventualities
               /\ child.formulas
                    = {lhs[j] : j \in {i \in P.formulas : i \in bitset.tomorrow}}
               /\ after.id = P.id
               /\ after.chain = P.chain
               /\ after.formulas = P.formulas
               /\ after.to_process = P.to_process
               /\ after.eventualities
                    = [s \in DOMAIN P.eventualities |->
                        IF bw_eventualities_lut[s] \in P.formulas
                        THEN [st |-> "SATISFIED", id |-> P.id]
                        ELSE P.eventualities[s]]
               /\ SubSeq(stack', 1, Len(stack) - 1)
                    = SubSeq(stack, 1, Len(stack) - 1)]_vars

\* the top frame was just pushed by STEP from a parent that asserts Tomorrow
\* entries and other formulas and holds a record satisfied at its own id
StepResultWitness ==
    /\ Len(stack) >= 2
    /\ Top.type = "UNKNOWN"
    /\ Top.to_process = 0..(number_of_formulas - 1)
    /\ Top.chain = Len(stack) - 1
    /\ LET P == stack[Len(stack) - 1]
       IN  /\ P.type = "STEP"
           /\ P.formulas \cap bitset.tomorrow # {}
           /\ P.formulas \ bitset.tomorrow # {}
           /\ Top.formulas = {lhs[j] : j \in P.formulas \cap bitset.tomorrow}
           /\ \E s \in DOMAIN P.eventualities :
                 P.eventualities[s] = [st |-> "SATISFIED", id |-> P.id]
           /\ \E s \in DOMAIN P.eventualities :
                 P.eventualities[s].st = "NOT_SATISFIED"

(***************************************************************************)
(* Properties of the beta rules and of the rollback                        *)
(***************************************************************************)
\* C23: a CHOICE frame with chosen formula i receives its first child when
\* the beta rule fires, the child adding to the parent's formulas lhs[i]
\* for a disjunction or an eventually, rhs[i] for an until, lhs[i] and
\* rhs[i] for a negated until; it receives a second child only from a
\* rollback that reaches it, the child adding rhs[i] for a disjunction,
\* i + 1 for an eventually, lhs[i] and the X-skin of i for an until, rhs[i]
\* and the X-skin of i for a negated until, the X-skin of i being the
\* Tomorrow entry whose lhs is i; once its chosen marker is cleared the
\* frame is left as it is until a rollback pops it.
BetaAlternatives ==
    [][(stack # <<>> /\ input' = input /\ runs' = runs /\ calls' = calls) =>
        LET skin(i) == CHOOSE j \in DOMAIN subformulas :
                          j \in bitset.tomorrow /\ lhs[j] = i
            first(i) ==
                IF i \in bitset.disjunction \cup bitset.eventually THEN {lhs[i]}
                ELSE IF i \in bitset.until THEN {rhs[i]}
                ELSE {lhs[i], rhs[i]}
            second(i) ==
                IF i \in bitset.disjunction THEN {rhs[i]}
                ELSE IF i \in bitset.eventually THEN {i + 1}
                ELSE IF i \in bitset.until THEN {lhs[i], skin(i)}
                ELSE {rhs[i], skin(i)}
            n == Len(stack)
        IN  /\ (/\ Len(stack') = n + 1
                /\ Top.type # "CHOICE"
                /\ stack'[n].type = "CHOICE")
                => /\ stack'[n].choosenFormula
                        \in bitset.disjunction \cup bitset.eventually
                              \cup bitset.until \cup bitset.not_until
                   /\ stack'[n + 1].formulas
                        = stack'[n].formulas \cup first(stack'[n].choosenFormula)
            /\ \A k \in 1..n :
                  (/\ stack[k].type = "CHOICE"
                   /\ stack[k].choosenFormula # FormulaID_max
                   /\ k \in DOMAIN stack'
                   /\ stack'[k] # stack[k])
                    => /\ Len(stack') = k + 1
                       /\ stack'[k] = [stack[k] EXCEPT !.choosenFormula = FormulaID_max]
                       /\ stack'[k + 1].formulas
                            = stack[k].formulas \cup second(stack[k].choosenFormula)
            /\ \A k \in 1..n :
                  (/\ stack[k].type = "CHOICE"
                   /\ stack[k].choosenFormula = FormulaID_max)
                    => \/ Len(stack') < k
                       \/ stack'[k] = stack[k]
                       \/ /\ Len(stack') = k
                          /\ k > 1
                          /\ stack'[k].type = "UNKNOWN"
                          /\ stack'[k - 1] # stack[k - 1]
                          /\ stack[k - 1].type \in {"CHOICE", "SAT"}]_vars

\* C24: when the eventually, until or not_until rule fires on formula i, each
\* slot the rule concerns (the slot of lhs[i] for an eventually, of rhs[i]
\* for an until, of lhs[i] and of rhs[i] for a negated until) becomes
\* NOT_SATISFIED if it was UNREQUESTED and is left as it was otherwise, and
\* no other slot of the frame changes.
EventualityRequest ==
    [][(/\ stack # <<>>
        /\ Len(stack') = Len(stack) + 1
        /\ Top.type # "CHOICE"
        /\ stack'[Len(stack)].type = "CHOICE")
        => LET i == stack'[Len(stack)].choosenFormula
               concerned ==
                   IF i \in bitset.eventually
                       THEN {fw_eventualities_lut[lhs[i]]}
                   ELSE IF i \in bitset.until
                       THEN {fw_eventualities_lut[rhs[i]]}
                   ELSE IF i \in bitset.not_until
                       THEN {fw_eventualities_lut[lhs[i]],
                             fw_eventualities_lut[rhs[i]]}
                   ELSE {}
               before == Top.eventualities
               after == stack'[Len(stack)].eventualities
           IN  \A s \in DOMAIN before :
                   after[s] = IF s \in concerned /\ before[s].st = "UNREQUESTED"
                              THEN [st |-> "NOT_SATISFIED", id |-> 0]
                              ELSE before[s]]_vars

(***************************************************************************)
(* Properties of the eventuality records                                   *)
(***************************************************************************)
\* C25: the record of a slot goes from UNREQUESTED to NOT_SATISFIED to
\* SATISFIED(k): no step takes a slot of the top frame from UNREQUESTED
\* straight to SATISFIED, and in every state a slot s of a frame that is
\* SATISFIED with timestamp k has its companion bw_eventualities_lut[s]
\* asserted in the frame of id k of that frame's chain, or in the frame
\* itself when k is its own id.
EventualityRecords ==
    /\ [](\A pos \in DOMAIN stack : \A s \in DOMAIN stack[pos].eventualities :
            LET ev == stack[pos].eventualities[s]
                walk == chain_walk(stack, stack[pos].chain)
            IN  ev.st = "SATISFIED" =>
                    IF ev.id = stack[pos].id
                    THEN bw_eventualities_lut[s] \in stack[pos].formulas
                    ELSE \E k \in DOMAIN walk :
                            /\ stack[walk[k]].id = ev.id
                            /\ bw_eventualities_lut[s] \in stack[walk[k]].formulas)
    /\ [][(/\ stack # <<>>
           /\ Len(stack') >= Len(stack)
           /\ input' = input /\ runs' = runs /\ calls' = calls)
            => \A s \in DOMAIN Top.eventualities :
                  ~(/\ Top.eventualities[s].st = "UNREQUESTED"
                    /\ stack'[Len(stack)].eventualities[s].st = "SATISFIED")]_vars

\* C26: along the chain of every frame, a slot that is SATISFIED in a chain
\* ancestor is SATISFIED in the frame too, with a timestamp greater than or
\* equal to the ancestor's.
EventualityMonotone ==
    \A pos \in DOMAIN stack :
        LET walk == chain_walk(stack, stack[pos].chain)
        IN  \A k \in DOMAIN walk : \A s \in DOMAIN stack[pos].eventualities :
                stack[walk[k]].eventualities[s].st = "SATISFIED"
                    => /\ stack[pos].eventualities[s].st = "SATISFIED"
                       /\ stack[pos].eventualities[s].id
                            >= stack[walk[k]].eventualities[s].id

\* C27: a rollback (after a contradiction, an unsatisfiable SAT setup, the
\* REP rule, the depth bound or a resumed call) pops every frame above the
\* topmost frame that is a CHOICE frame whose chosen marker is set or a SAT
\* frame whose solver still has an assignment, pushes exactly one child on
\* that frame, and leaves the formulas, to_process and eventualities of that
\* frame and every frame below it as they were, the chosen marker of the
\* CHOICE frame being cleared; with no such frame the stack ends empty.
RollbackEffect ==
    [][(Contradiction \/ SatUnsat \/ RepRule \/ DepthCut \/ SolveResume) =>
        LET open == {k \in DOMAIN stack :
                        \/ /\ stack[k].type = "CHOICE"
                           /\ stack[k].choosenFormula # FormulaID_max
                        \/ /\ stack[k].type = "SAT"
                           /\ sat_models(stack[k]) # {}}
        IN  IF open = {} THEN stack' = <<>>
            ELSE LET t == CHOOSE k \in open : \A j \in open : j <= k
                 IN  /\ Len(stack') = t + 1
                     /\ \A k \in 1..(t - 1) : stack'[k] = stack[k]
                     /\ stack'[t].formulas = stack[t].formulas
                     /\ stack'[t].to_process = stack[t].to_process
                     /\ stack'[t].eventualities = stack[t].eventualities
                     /\ stack'[t].id = stack[t].id
                     /\ stack'[t].chain = stack[t].chain
                     /\ stack'[t].type = stack[t].type
                     /\ stack[t].type = "CHOICE"
                          => stack'[t].choosenFormula = FormulaID_max
                     /\ stack'[t + 1].type = "UNKNOWN"
                     /\ stack'[t + 1].id = stack[t].id
                     /\ stack'[t + 1].chain = stack[t].chain
                     /\ stack[t].formulas \subseteq stack'[t + 1].formulas]_vars

\* the top frame is the second child of a CHOICE frame above a STEP frame,
\* pushed by a rollback, and differs from its parent
RollbackWitness ==
    /\ Len(stack) >= 3
    /\ state = "RUNNING"
    /\ Top.type = "UNKNOWN"
    /\ LET parent == stack[Len(stack) - 1]
       IN  /\ parent.type = "CHOICE"
           /\ parent.choosenFormula = FormulaID_max
           /\ parent.id >= 1
           /\ parent.id = Top.id
           /\ Top.formulas # parent.formulas
           /\ parent.formulas \subseteq Top.formulas
           /\ Top.to_process = parent.to_process

(***************************************************************************)
(* Properties of the stack                                                 *)
(***************************************************************************)
\* C28: in every reachable state each frame with id >= 1 has a chain
\* reference to a frame on the stack strictly below it that has kind STEP
\* and id one less than the frame's; each frame with id 0 has no chain; and
\* the ids never decrease from the bottom of the stack to its top.
ChainValid ==
    /\ \A pos \in DOMAIN stack :
          IF stack[pos].id = 0 THEN stack[pos].chain = 0
          ELSE /\ stack[pos].chain \in 1..(pos - 1)
               /\ stack[stack[pos].chain].type = "STEP"
               /\ stack[stack[pos].chain].id = stack[pos].id - 1
    /\ \A a, b \in DOMAIN stack : a <= b => stack[a].id <= stack[b].id

\* the top frame, of id at least 2, is chained to a STEP frame that is not
\* the frame just below it, and the bottom frame is not a STEP frame
ChainWitness ==
    /\ Len(stack) >= 5
    /\ Top.id >= 2
    /\ Top.chain < Len(stack) - 1
    /\ stack[1].type = "CHOICE"
    /\ stack[Top.chain].chain > 1

(***************************************************************************)
(* Properties of the SAT bridge                                            *)
(***************************************************************************)
\* C29: with use_sat enabled the disjunction rule never picks a formula: no
\* beta rule makes a frame a CHOICE frame on a disjunction and no CHOICE
\* frame has a disjunction as its chosen formula; every disjunction asserted
\* in a SAT frame, all of which were handed to the solver, is cleared from
\* that frame's to_process; and no frame that took STEP asserts a
\* disjunction still in its to_process.
SatOwnsDisjunctions ==
    /\ [](use_sat =>
            \A pos \in DOMAIN stack :
                /\ stack[pos].type = "CHOICE"
                     => stack[pos].choosenFormula \notin bitset.disjunction
                /\ stack[pos].type \in {"SAT", "STEP"}
                     => stack[pos].formulas \cap stack[pos].to_process
                            \cap bitset.disjunction = {})
    /\ [][(/\ use_sat
           /\ stack # <<>>
           /\ Len(stack') = Len(stack) + 1
           /\ stack'[Len(stack)].type # Top.type)
            => /\ stack'[Len(stack)].type = "CHOICE"
                    => stack'[Len(stack)].choosenFormula \notin bitset.disjunction
               /\ stack'[Len(stack)].type = "SAT"
                    => /\ Top.formulas \cap Top.to_process \cap bitset.disjunction # {}
                       /\ stack'[Len(stack)].to_process
                            = Top.to_process \ (Top.formulas \cap bitset.disjunction)]_vars

\* with use_sat enabled the stack holds a CHOICE frame, a SAT frame that
\* asserts a disjunction and, above it, a STEP frame that asserts one
SatOwnsWitness ==
    /\ use_sat
    /\ \E a, b, c \in DOMAIN stack :
          /\ b < c
          /\ stack[a].type = "CHOICE"
          /\ stack[b].type = "SAT"
          /\ stack[b].formulas \cap bitset.disjunction # {}
          /\ stack[c].type = "STEP"
          /\ stack[c].formulas \cap bitset.disjunction # {}

\* C30: each child pushed from a SAT frame, at the SAT setup or by a
\* rollback into the frame, commits an assignment of the frame's literals
\* that satisfies every clause the solver held before, the blocking clauses
\* of the earlier children included, so the assignments of the children of
\* one SAT frame are pairwise different; the step adds exactly one blocking
\* clause; a SAT frame whose solver has no assignment left never receives a
\* child; and the blocking clauses of a frame number at most 2^|literals|.
SatReentry ==
    /\ [][\A t \in DOMAIN stack :
            LET was == stack[t]
                orig == {{clauses[one][k] : k \in DOMAIN clauses[one]} :
                            one \in exposed(was)}
                before == IF was.type = "SAT" THEN was.solver ELSE orig
            IN  /\ (/\ Len(stack') = t + 1
                    /\ stack'[t].type = "SAT"
                    /\ stack'[t] # was)
                    => LET added == stack'[t].solver \ before
                           b == CHOOSE c \in added : TRUE
                           T == {lit[1] : lit \in {x \in b : x[2]}}
                       IN  /\ Cardinality(added) = 1
                           /\ before \subseteq stack'[t].solver
                           /\ T \subseteq stack'[t].literals
                           /\ \A c \in before :
                                 \E lit \in c : (lit[1] \in T) # lit[2]
                           /\ was.formulas \cup T \subseteq stack'[t + 1].formulas
                           /\ stack'[t + 1].type = "UNKNOWN"
                /\ (/\ was.type = "SAT"
                    /\ \A T \in SUBSET was.literals :
                          \E c \in was.solver :
                              \A lit \in c : (lit[1] \in T) = lit[2]
                    /\ input' = input /\ runs' = runs)
                    => \/ Len(stack') < t
                       \/ /\ Len(stack') > t
                          /\ stack'[t] = was
                       \/ /\ Len(stack') = t
                          /\ stack'[t].type = "UNKNOWN"]_vars
    /\ [](\A t \in DOMAIN stack :
            stack[t].type = "SAT" =>
                Cardinality(stack[t].solver
                    \ {{clauses[one][k] : k \in DOMAIN clauses[one]} :
                          one \in exposed(stack[t])})
                    <= 2 ^ Cardinality(stack[t].literals))

\* a SAT frame over two literals holds the blocking clauses of two children
\* and the second child is on top of it
SatReentryWitness ==
    /\ Len(stack) >= 2
    /\ Top.type = "UNKNOWN"
    /\ LET F == stack[Len(stack) - 1]
       IN  /\ F.type = "SAT"
           /\ Cardinality(F.literals) >= 2
           /\ Cardinality(F.solver
                  \ {{clauses[one][k] : k \in DOMAIN clauses[one]} :
                        one \in exposed(F)}) >= 2

(***************************************************************************)
(* Properties of the model and of the kinds of the frames                  *)
(***************************************************************************)
\* C31: for a closure other than the single formula True, the model that
\* model() returns while the solver is paused on the accepted frame F has
\* exactly F.id states, state number i holding the literals of the one STEP
\* frame of id i, for i = 0 .. F.id - 1; it has at least one state and its
\* loop_state is smaller than the number of its states.
ModelShape ==
    (/\ state = "PAUSED"
     /\ ~(number_of_formulas = 1 /\ subformulas[0] = TrueF))
    => /\ stack # <<>>
       /\ ~model.none
       /\ ret.op = "model" => ret.model = model
       /\ Len(model.states) = Top.id
       /\ Len(model.states) >= 1
       /\ model.loop_state \in 0..(Len(model.states) - 1)
       /\ model.loop_state = loop_state
       /\ \A i \in 0..(Top.id - 1) :
             LET steps == {pos \in DOMAIN stack :
                             stack[pos].type = "STEP" /\ stack[pos].id = i}
             IN  /\ Cardinality(steps) = 1
                 /\ \A pos \in steps :
                       model.states[i + 1]
                         = {<<subformulas[j][2], TRUE>> :
                               j \in {k \in stack[pos].formulas :
                                        isa("Atom", subformulas[k])}}
                           \cup {<<subformulas[j][2][2], FALSE>> :
                               j \in {k \in stack[pos].formulas :
                                        /\ isa("Negation", subformulas[k])
                                        /\ isa("Atom", subformulas[k][2])}}

\* model() returned a model of three states whose loop goes back to a state
\* after the first, with a positive and a negative literal in it
ModelShapeWitness ==
    /\ state = "PAUSED"
    /\ ret.op = "model"
    /\ ~ret.model.none
    /\ Len(ret.model.states) = 3
    /\ ret.model.loop_state >= 1
    /\ \E i \in DOMAIN ret.model.states :
          \E a, b \in ret.model.states[i] : a[2] /\ ~b[2]
    /\ \E pos \in DOMAIN stack : stack[pos].type \in {"CHOICE", "SAT"}

\* C32: whenever the rule loop examines the top frame, the kind of the top
\* frame is UNKNOWN (so the assertion of _should_use_sat_solver, kind SAT or
\* UNKNOWN, holds), every frame below the top has kind CHOICE, STEP or SAT,
\* and for every time index below the id of the top frame exactly one frame
\* of the stack has kind STEP and that id.
StackKinds ==
    (state = "RUNNING" /\ stack # <<>>)
    => /\ Top.type = "UNKNOWN"
       /\ \A pos \in 1..(Len(stack) - 1) :
             stack[pos].type \in {"CHOICE", "STEP", "SAT"}
       /\ \A i \in 0..(Top.id - 1) :
             Cardinality({pos \in DOMAIN stack :
                            stack[pos].type = "STEP" /\ stack[pos].id = i}) = 1
       /\ \A pos \in DOMAIN stack :
             stack[pos].type = "STEP" => stack[pos].id < Top.id

\* the rule loop examines a frame of id at least 2 above frames of the
\* three kinds
StackKindsWitness ==
    /\ state = "RUNNING"
    /\ stack # <<>>
    /\ Top.id >= 2
    /\ \E a, b, c \in 1..(Len(stack) - 1) :
          /\ stack[a].type = "CHOICE"
          /\ stack[b].type = "SAT"
          /\ stack[c].type = "STEP"

=============================================================================
